---- MODULE Spec2Model ----
(***************************************************************************)
(* go-ghcrawl: the repository activity score and the search query of       *)
(* cli.go.                                                                 *)
(*                                                                         *)
(* GetRepositoryActivityScore(repo *Repo) int is modelled statement by     *)
(* statement: every Go statement that reads the heap, reads the clock or   *)
(* writes the heap is one step of a call.  Each of two callers            *)
(* (goroutines) makes one call; calls that overlap are on distinct Repo    *)
(* values, a Repo may be scored again once the call on it has returned.    *)
(* A nil dereference is a Go run-time panic, which nothing in the          *)
(* repository recovers: it ends the program, whatever else is running.     *)
(* run calls GetRepos first, which builds the search query from the        *)
(* Options by getSearchQuery; the repositories that are scored are the     *)
(* ones the search returns, so the calls that score come after it.         *)
(*                                                                         *)
(* State.                                                                  *)
(*   repos    the heap: the Repo values (cli.go 249-252), by address       *)
(*   opts     the process-wide Options (cli.go 43-45)                      *)
(*   clock    the system clock that time.Since reads (cli.go 279, 308)     *)
(*   pc       where each caller is in GetRepositoryActivityScore           *)
(*   frame    the locals of each caller's call                             *)
(*   crashed  a panic has ended the program                                *)
(*   query    the query of GetRepos (cli.go 130), nil until it is built    *)
(*                                                                         *)
(* Representation.                                                         *)
(*   pointer  *T      <<>> is nil, <<v>> points to v                       *)
(*   string           the sequence of its characters, each character given *)
(*                    by the number of bytes of its UTF-8 encoding; Go's   *)
(*                    len(s) is the number of bytes                        *)
(*   string (Options, query)  the sequence of its characters, each a      *)
(*                    one-character string: here the text itself matters   *)
(*   time             an integer number of ticks, TicksPerDay ticks a day; *)
(*                    float64 day counts are the exact rationals           *)
(*                    ticks / TicksPerDay, and int(x) truncates toward 0   *)
(***************************************************************************)
EXTENDS Integers, Sequences, FiniteSets, TLC

VARIABLES repos, opts, clock, pc, frame, crashed, query

vars == <<repos, opts, clock, pc, frame, crashed, query>>

(***************************************************************************)
(* Bounds of the model.                                                    *)
(***************************************************************************)
\* resolution of time: ticks in a day
TicksPerDay == 2
\* the last value of the system clock: it advances until it is MaxTicks
MaxTicks == 1
\* the large fork count of the inputs (pushes the score over the log threshold)
ManyForks == 590
\* the subscriber counts of the log-scale inputs: LogSubsFrom .. LogSubsFrom + LogSubsSpan
LogSubsFrom == 2940
LogSubsSpan == 900
\* the most entries of Organizations and of Topics
MaxEntries == 2

(***************************************************************************)
(* Constants of the program.                                               *)
(***************************************************************************)
InitialScore == 50
ForksWeight == 5
StargazersDivisor == 3
OpenIssuesDivisor == 5
UpdateWindowDays == 100
BoostWindowDays == 365
MaxBoost == 1000
\* 2.74 as hundredths
BoostDeclineHundredths == 274
MeaningfulLength == 30
DescriptionBonus == 50
GuidelinesBonus == 100
LogThreshold == 3000

Procs == {1, 2}

(***************************************************************************)
(* Helpers for the representation.                                         *)
(***************************************************************************)
Nil == <<>>

Ptr(v) == <<v>>

IsNil(p) == p = <<>>

Deref(p) == p[1]

Min(a, b) == IF a <= b THEN a ELSE b

\* Go's int(x) of the float64 x = n / d (d > 0): truncation toward zero
TruncDiv(n, d) == IF n >= 0 THEN n \div d ELSE -((-n) \div d)

RECURSIVE SumSeq(_)
SumSeq(s) == IF s = <<>> THEN 0 ELSE Head(s) + SumSeq(Tail(s))

\* Go's len(s) of a string: its length in bytes
GoLen(s) == SumSeq(s)

\* a string of n one-byte characters
Ascii(n) == [i \in 1..n |-> 1]

\* a string of n three-byte characters
Wide(n) == [i \in 1..n |-> 3]

(***************************************************************************)
(* The arithmetic of GetRepositoryActivityScore.                           *)
(***************************************************************************)
\* Repository.GetUpdatedAt / GetCreatedAt: the zero Timestamp when the field is nil
GetTimestamp(field) == field

\* time.Since(t), in ticks; for the zero time the duration saturates at the
\* largest Duration, 2^63 - 1 ns, a little under 106752 days
Since(now, t) == IF IsNil(t) THEN 106751 * TicksPerDay ELSE now - Deref(t)

\* the multiplier with the operands of its subtraction swapped
UpdateMultiplierSwapped(t) ==
    TruncDiv(Min(t, UpdateWindowDays * TicksPerDay) - (1 + UpdateWindowDays) * TicksPerDay,
             UpdateWindowDays * TicksPerDay)

\* the multiplier without the 1 added to the numerator
UpdateMultiplierWithoutOne(t) ==
    TruncDiv(UpdateWindowDays * TicksPerDay - Min(t, UpdateWindowDays * TicksPerDay),
             UpdateWindowDays * TicksPerDay)

\* int((1 + (100 - math.Min(days, 100))) / 100), days = t / TicksPerDay
UpdateMultiplier(t) ==
    TruncDiv((1 + UpdateWindowDays) * TicksPerDay - Min(t, UpdateWindowDays * TicksPerDay),
             UpdateWindowDays * TicksPerDay)

\* int(1000 - math.Min(days, 365) * 2.74)
Boost(t) ==
    TruncDiv(MaxBoost * 100 * TicksPerDay
               - Min(t, BoostWindowDays * TicksPerDay) * BoostDeclineHundredths,
             100 * TicksPerDay)

\* the creation factor rounded up, not truncated
CreationBoostCeiling(t) ==
    (BoostWindowDays * TicksPerDay - Min(t, BoostWindowDays * TicksPerDay)
       + BoostWindowDays * TicksPerDay - 1) \div (BoostWindowDays * TicksPerDay)

\* int((365 - math.Min(days, 365)) / 365)
CreationBoost(t) ==
    TruncDiv(BoostWindowDays * TicksPerDay - Min(t, BoostWindowDays * TicksPerDay),
             BoostWindowDays * TicksPerDay)

\* LnSteps[i] is the least integer s with math.Log(s) * 100 >= 800 + i
LnSteps ==
    << 3011, 3042, 3072, 3103, 3134, 3166, 3198, 3230, 3262, 3295, 3328, 3362,
       3395, 3429, 3464, 3499, 3534, 3569, 3605, 3641, 3678, 3715, 3752, 3790,
       3828, 3867, 3905, 3945, 3984, 4024, 4065, 4106, 4147, 4189, 4231, 4273,
       4316, 4360, 4403, 4448, 4492, 4537, 4583, 4629, 4676, 4723, 4770, 4818,
       4866, 4915, 4965, 5015, 5065, 5116, 5167, 5219, 5272, 5325, 5378, 5432,
       5487, 5542, 5598, 5654, 5711, 5768, 5826, 5885, 5944, 6003, 6064, 6125,
       6186, 6248, 6311, 6375, 6439, 6503, 6569, 6635, 6701, 6769, 6837, 6905,
       6975, 7045, 7116, 7187, 7260, 7332, 7406, 7481, 7556, 7632, 7708, 7786,
       7864, 7943, 8023, 8104, 8185, 8267, 8350, 8434, 8519, 8605, 8691, 8778,
       8867, 8956, 9046, 9137, 9229, 9321, 9415, 9510, 9605, 9702, 9799, 9898,
       9997, 10098, 10199, 10302, 10405, 10510, 10615, 10722, 10830, 10939, 11048, 11159,
       11272, 11385, 11499, 11615, 11732, 11850, 11969 >>

\* int(math.Log(float64(s)) * 100), tabulated for 2981 <= s < 11969
LogTable ==
    [ s \in 2981 .. (LnSteps[Len(LnSteps)] - 1) |->
        CHOOSE k \in 800 .. (800 + Len(LnSteps) - 1) :
            /\ k > 800 => LnSteps[k - 800] <= s
            /\ s < LnSteps[k - 800 + 1] ]

\* int(math.Log(float64(s)) * 100) (no value outside the table)
LogHundredths(s) == LogTable[s]

\* the log score with the logarithm scaled by 1000, not 100
LogScoreTimesThousand(s) == LogThreshold + LogHundredths(s) * 10

\* logScore := int(3000 + math.Log(float64(score)) * 100)
LogScore(s) == LogThreshold + LogHundredths(s)

\* step 9: if score > 3000 { score = logScore }
Compress(s) == IF s > LogThreshold THEN LogScore(s) ELSE s

\* the final score without the initial value subtracted
FinalScoreKeepingOffset(s) == s

\* int(math.Round(float64(score) - 50)): score is a whole number, Round keeps it
FinalScore(s) == s - InitialScore

\* the test with && in the place of ||
MeaningfulBoth(description, motivation) ==
    GoLen(description) > MeaningfulLength /\ GoLen(motivation) > MeaningfulLength

\* len(*ghRepo.Description) > 30 || len(repo.Metadata.Motivation) > 30
Meaningful(description, motivation) ==
    GoLen(description) > MeaningfulLength \/ GoLen(motivation) > MeaningfulLength

\* the store that adds to the score already there
StoreScoreAccumulating(heap, r, s) ==
    [heap EXCEPT ![r].Metadata = Ptr([Deref(@) EXCEPT !.Score = @ + s])]

\* the store that also records the score as the participation text
StoreScoreAndParticipation(heap, r, s) ==
    [heap EXCEPT ![r].Metadata = Ptr([Deref(@) EXCEPT !.Score = s, !.Participation = <<1>>])]

\* repo.Metadata.Score = score
StoreScore(heap, r, s) ==
    [heap EXCEPT ![r].Metadata = Ptr([Deref(@) EXCEPT !.Score = s])]

(***************************************************************************)
(* The search query of getSearchQuery.                                     *)
(***************************************************************************)
\* the characters url.QueryEscape leaves as they are: letters, digits, - _ . ~
Unreserved ==
    { "a", "b", "c", "d", "e", "f", "g", "h", "i", "j", "k", "l", "m", "n", "o", "p",
      "q", "r", "s", "t", "u", "v", "w", "x", "y", "z",
      "0", "1", "2", "3", "4", "5", "6", "7", "8", "9", "-", "_", ".", "~" }

\* the %XX form of the other characters that occur in a query: the two hex
\* digits of the character's byte
PercentEncoded ==
    [ c \in {":", "+", "%"} |->
        IF c = ":" THEN <<"%", "3", "A">>
        ELSE IF c = "+" THEN <<"%", "2", "B">>
        ELSE <<"%", "2", "5">> ]

\* url.QueryEscape on one character: a space becomes +
EscapeChar(c) ==
    IF c \in Unreserved THEN <<c>>
    ELSE IF c = " " THEN <<"+">>
    ELSE PercentEncoded[c]

\* url.QueryEscape(s)
RECURSIVE QueryEscape(_)
QueryEscape(s) == IF s = <<>> THEN <<>> ELSE EscapeChar(Head(s)) \o QueryEscape(Tail(s))

\* getSearchQuery(opts): the first organization, the visibility and the
\* first topic, joined by +, then escaped as a whole
getSearchQuery(o) ==
    LET orgsPart == IF Len(o.Organizations) > 0
                    THEN <<"o", "r", "g", ":">> \o o.Organizations[1] ELSE <<>>
        visibilityPart == <<"i", "s", ":">> \o o.Visibility
        topicsPart == IF Len(o.Topics) > 0
                      THEN <<"t", "o", "p", "i", "c", ":">> \o o.Topics[1] ELSE <<>>
    IN  QueryEscape(orgsPart
                      \o (IF visibilityPart # <<>> THEN <<"+">> \o visibilityPart ELSE <<>>)
                      \o (IF topicsPart # <<>> THEN <<"+">> \o topicsPart ELSE <<>>))

(***************************************************************************)
(* The state of a call: the locals of GetRepositoryActivityScore.  repo is  *)
(* the address of the Repo the call was given (0: none), entry the Repo as  *)
(* it was when the call began, nowAtUpdate / nowAtCreation the clock values *)
(* the two time.Since calls read, preLog the score that reached the log     *)
(* scale, ret the value handed to the caller.                               *)
(***************************************************************************)
NoFrame ==
    [ repo |-> 0, entry |-> Nil, score |-> 0,
      nowAtUpdate |-> Nil, daysSinceLastUpdate |-> 0, updateMultiplier |-> 0, boost |-> 0,
      nowAtCreation |-> Nil, daysSinceCreation |-> 0, creationBoost |-> 0,
      preLog |-> Nil, ret |-> Nil ]

\* the Repo values that calls in progress hold (a call that has returned
\* holds none)
InUse == { frame[q].repo : q \in { x \in Procs : pc[x] \notin {"idle", "done"} } }

\* a statement that completes: control moves on with the locals f
Goto(p, to, f) ==
    /\ pc' = [pc EXCEPT ![p] = to]
    /\ frame' = [frame EXCEPT ![p] = f]
    /\ UNCHANGED <<repos, opts, clock, crashed, query>>

\* a nil dereference: the run-time panic ends the program
Panic(p) ==
    /\ pc' = [pc EXCEPT ![p] = "panicked"]
    /\ crashed' = TRUE
    /\ UNCHANGED <<repos, opts, clock, frame, query>>

\* a caller invokes GetRepositoryActivityScore on a Repo no other call holds,
\* once GetRepos has run; ghRepo := repo.GH; score := 50
Call(p) ==
    /\ ~crashed
    /\ ~IsNil(query)
    /\ pc[p] = "idle"
    /\ \E r \in DOMAIN repos \ InUse :
          Goto(p, "forks", [NoFrame EXCEPT !.repo = r, !.entry = Ptr(repos[r]),
                                           !.score = InitialScore])

\* score += *ghRepo.ForksCount * 5
AddForks(p) ==
    /\ ~crashed
    /\ pc[p] = "forks"
    /\ LET gh == repos[frame[p].repo].GH IN
       IF IsNil(gh) \/ IsNil(Deref(gh).ForksCount)
       THEN Panic(p)
       ELSE Goto(p, "subscribers",
                 [frame[p] EXCEPT !.score = @ + Deref(Deref(gh).ForksCount) * ForksWeight])

\* score += *ghRepo.SubscribersCount
AddSubscribers(p) ==
    /\ ~crashed
    /\ pc[p] = "subscribers"
    /\ LET gh == repos[frame[p].repo].GH IN
       IF IsNil(Deref(gh).SubscribersCount)
       THEN Panic(p)
       ELSE Goto(p, "stargazers",
                 [frame[p] EXCEPT !.score = @ + Deref(Deref(gh).SubscribersCount)])

\* score += *ghRepo.StargazersCount / 3
AddStargazers(p) ==
    /\ ~crashed
    /\ pc[p] = "stargazers"
    /\ LET gh == repos[frame[p].repo].GH IN
       IF IsNil(Deref(gh).StargazersCount)
       THEN Panic(p)
       ELSE Goto(p, "issues",
                 [frame[p] EXCEPT !.score =
                     @ + TruncDiv(Deref(Deref(gh).StargazersCount), StargazersDivisor)])

\* score += *ghRepo.OpenIssuesCount / 5
AddOpenIssues(p) ==
    /\ ~crashed
    /\ pc[p] = "issues"
    /\ LET gh == repos[frame[p].repo].GH IN
       IF IsNil(Deref(gh).OpenIssuesCount)
       THEN Panic(p)
       ELSE Goto(p, "update",
                 [frame[p] EXCEPT !.score =
                     @ + TruncDiv(Deref(Deref(gh).OpenIssuesCount), OpenIssuesDivisor)])

\* lines 277-302: the time since the last update, the update multiplier
\* applied to the score, and the boost
ApplyUpdate(p) ==
    /\ ~crashed
    /\ pc[p] = "update"
    /\ LET gh == Deref(repos[frame[p].repo].GH)
           t  == Since(clock, GetTimestamp(gh.UpdatedAt))
       IN  Goto(p, "creation",
                [frame[p] EXCEPT !.nowAtUpdate = Ptr(clock),
                                 !.daysSinceLastUpdate = t,
                                 !.updateMultiplier = UpdateMultiplier(t),
                                 !.score = @ * UpdateMultiplier(t),
                                 !.boost = Boost(t)])

\* lines 306-317: the time since creation, the creation factor applied to
\* the boost, and the boost added to the score
ApplyCreation(p) ==
    /\ ~crashed
    /\ pc[p] = "creation"
    /\ LET gh == Deref(repos[frame[p].repo].GH)
           t  == Since(clock, GetTimestamp(gh.CreatedAt))
           b  == frame[p].boost * CreationBoost(t)
       IN  Goto(p, "description",
                [frame[p] EXCEPT !.nowAtCreation = Ptr(clock),
                                 !.daysSinceCreation = t,
                                 !.creationBoost = CreationBoost(t),
                                 !.boost = b,
                                 !.score = @ + b])

\* the description bonus with the running score stored into the metadata
\* before the description is dereferenced
AddDescriptionBonusStoringFirst(p) ==
    /\ ~crashed
    /\ pc[p] = "description"
    /\ LET gh == Deref(repos[frame[p].repo].GH)
           md == repos[frame[p].repo].Metadata
       IN  IF IsNil(gh.Description) \/ IsNil(md)
           THEN /\ pc' = [pc EXCEPT ![p] = "panicked"]
                /\ crashed' = TRUE
                /\ repos' = IF IsNil(md) THEN repos
                            ELSE [repos EXCEPT ![frame[p].repo].Metadata =
                                     Ptr([Deref(@) EXCEPT !.Score = frame[p].score])]
                /\ UNCHANGED <<opts, clock, frame, query>>
           ELSE Goto(p, "guidelines",
                     [frame[p] EXCEPT !.score =
                         IF Meaningful(Deref(gh.Description), Deref(md).Motivation)
                         THEN @ + DescriptionBonus ELSE @])

\* if len(*ghRepo.Description) > 30 || len(repo.Metadata.Motivation) > 30 { score += 50 }
\* (|| evaluates its right side only when the left one is false)
AddDescriptionBonus(p) ==
    /\ ~crashed
    /\ pc[p] = "description"
    /\ LET gh == Deref(repos[frame[p].repo].GH)
           md == repos[frame[p].repo].Metadata
       IN  IF IsNil(gh.Description)
           THEN Panic(p)
           ELSE IF GoLen(Deref(gh.Description)) <= MeaningfulLength /\ IsNil(md)
           THEN Panic(p)
           ELSE Goto(p, "guidelines",
                     [frame[p] EXCEPT !.score =
                         IF Meaningful(Deref(gh.Description),
                                       IF IsNil(md) THEN <<>> ELSE Deref(md).Motivation)
                         THEN @ + DescriptionBonus ELSE @])

\* if repo.Metadata.Guidelines != "" { score += 100 }
AddGuidelinesBonus(p) ==
    /\ ~crashed
    /\ pc[p] = "guidelines"
    /\ LET md == repos[frame[p].repo].Metadata IN
       IF IsNil(md)
       THEN Panic(p)
       ELSE Goto(p, "log",
                 [frame[p] EXCEPT !.score = @ + IF Deref(md).Guidelines # <<>>
                                                THEN GuidelinesBonus ELSE 0])

\* if score > 3000 { score = int(3000 + math.Log(float64(score)) * 100) }
LogScale(p) ==
    /\ ~crashed
    /\ pc[p] = "log"
    /\ Goto(p, "final", [frame[p] EXCEPT !.preLog = Ptr(frame[p].score),
                                          !.score = Compress(@)])

\* score = int(math.Round(float64(score) - 50))
Finalize(p) ==
    /\ ~crashed
    /\ pc[p] = "final"
    /\ Goto(p, "store", [frame[p] EXCEPT !.score = FinalScore(@)])

\* repo.Metadata.Score = score
Store(p) ==
    /\ ~crashed
    /\ pc[p] = "store"
    /\ pc' = [pc EXCEPT ![p] = "return"]
    /\ repos' = StoreScore(repos, frame[p].repo, frame[p].score)
    /\ UNCHANGED <<opts, clock, frame, crashed, query>>

\* return score
Return(p) ==
    /\ ~crashed
    /\ pc[p] = "return"
    /\ Goto(p, "done", [frame[p] EXCEPT !.ret = Ptr(frame[p].score)])

\* GetRepos, the first statement of run: query := getSearchQuery(opts)
GetRepos ==
    /\ IsNil(query)
    /\ query' = Ptr(getSearchQuery(opts))
    /\ UNCHANGED <<repos, opts, clock, pc, frame, crashed>>

\* the system clock advances
Tick ==
    /\ ~crashed
    /\ clock < MaxTicks
    /\ clock' = clock + 1
    /\ UNCHANGED <<repos, opts, pc, frame, crashed, query>>

Next ==
    \/ \E p \in Procs :
          \/ Call(p)
          \/ AddForks(p)
          \/ AddSubscribers(p)
          \/ AddStargazers(p)
          \/ AddOpenIssues(p)
          \/ ApplyUpdate(p)
          \/ ApplyCreation(p)
          \/ AddDescriptionBonus(p)
          \/ AddGuidelinesBonus(p)
          \/ LogScale(p)
          \/ Finalize(p)
          \/ Store(p)
          \/ Return(p)
    \/ GetRepos
    \/ Tick

(***************************************************************************)
(* The records: github.Repository (the fields the score reads), the        *)
(* InnerSourceMetadata, the Repo that holds a pointer to each, Options.    *)
(***************************************************************************)
Repository(forks, subscribers, stargazers, issues, description, updatedAt, createdAt) ==
    [ ForksCount |-> forks, SubscribersCount |-> subscribers,
      StargazersCount |-> stargazers, OpenIssuesCount |-> issues,
      Description |-> description, UpdatedAt |-> updatedAt, CreatedAt |-> createdAt ]

InnerSourceMetadata(title, motivation, guidelines, score) ==
    [ Title |-> title, Motivation |-> motivation, Contributions |-> <<>>,
      Skills |-> <<>>, Logo |-> <<>>, Docs |-> <<>>, Language |-> <<>>,
      Participation |-> <<>>, Guidelines |-> guidelines, Score |-> score ]

Repo(gh, metadata) == [ GH |-> gh, Metadata |-> metadata ]

Options(user, organizations, topics, visibility) ==
    [ User |-> user, Organizations |-> organizations, Topics |-> topics,
      Visibility |-> visibility ]

\* var opts = &Options{Visibility: "public"}, and the flag defaults of init()
DefaultOptions == Options(<<>>, <<>>, <<>>, <<"p", "u", "b", "l", "i", "c">>)

\* the state once the Options the flags have set, the heap of Repo values and
\* the clock's first value are given
InitOf(options, heaps, start) ==
    /\ repos \in heaps
    /\ opts \in options
    /\ clock = start
    /\ pc = [p \in Procs |-> "idle"]
    /\ frame = [p \in Procs |-> NoFrame]
    /\ crashed = FALSE
    /\ query = Nil

\* the same with no flag given
InitWith(heaps, start) == InitOf({DefaultOptions}, heaps, start)

\* a heap of n Repo values drawn from rs
Heaps(n, rs) == [1..n -> rs]

(***************************************************************************)
(* Inputs.  Time stamps are given by their age, in ticks, at the instant    *)
(* now, the clock's first value.                                           *)
(***************************************************************************)
Day == TicksPerDay

\* the Repo of the baseline scenario: nothing counted, updated and created now
Baseline(now) ==
    Repo(Ptr(Repository(Ptr(0), Ptr(0), Ptr(0), Ptr(0), Ptr(<<>>), Ptr(now), Ptr(now))),
         Ptr(InnerSourceMetadata(<<>>, <<>>, <<>>, 0)))

WithGH(r, field, v) == [r EXCEPT !.GH = Ptr([Deref(@) EXCEPT ![field] = v])]

WithMetadata(r, field, v) == [r EXCEPT !.Metadata = Ptr([Deref(@) EXCEPT ![field] = v])]

\* the four counts of a snapshot: none, a few, many forks, and each one absent
CountCases ==
    { <<Ptr(0), Ptr(0), Ptr(0), Ptr(0)>>,
      <<Ptr(1), Ptr(1), Ptr(4), Ptr(6)>>,
      <<Ptr(ManyForks), Ptr(0), Ptr(0), Ptr(0)>>,
      <<Nil, Ptr(0), Ptr(0), Ptr(0)>>,
      <<Ptr(0), Nil, Ptr(0), Ptr(0)>>,
      <<Ptr(0), Ptr(0), Nil, Ptr(0)>>,
      <<Ptr(0), Ptr(0), Ptr(0), Nil>> }

\* updatedAt and createdAt: now, a tick ago, a day ago, more than a day ago,
\* never set (the zero time), and in the future: by a tick, by the update
\* window less a day, and by a tick less than that
TimeCases(now) ==
    { <<Ptr(now), Ptr(now)>>, <<Ptr(now - 1), Ptr(now)>>, <<Ptr(now - Day), Ptr(now)>>,
      <<Ptr(now - Day - 1), Ptr(now)>>, <<Ptr(now), Ptr(now - 1)>>,
      <<Ptr(now - Day - 1), Ptr(now - Day - 1)>>,
      <<Nil, Nil>>, <<Ptr(now + 1), Ptr(now + 1)>>,
      <<Ptr(now + (UpdateWindowDays - 1) * Day + MaxTicks + 1), Ptr(now)>>,
      <<Ptr(now + (UpdateWindowDays - 1) * Day - 1), Ptr(now)>> }

DescriptionCases == { Nil, Ptr(<<>>), Ptr(Ascii(MeaningfulLength + 1)) }

MetadataCases ==
    { Nil,
      Ptr(InnerSourceMetadata(<<>>, <<>>, <<>>, 0)),
      Ptr(InnerSourceMetadata(Ascii(1), Ascii(MeaningfulLength + 1), Ascii(1), 7)) }

\* every snapshot and metadata record of the cases above, and no snapshot at all
WideInputs(now) ==
    { Repo(Ptr(Repository(c[1], c[2], c[3], c[4], d, t[1], t[2])), m) :
        c \in CountCases, d \in DescriptionCases, t \in TimeCases(now), m \in MetadataCases }
    \cup { Repo(Nil, Ptr(InnerSourceMetadata(<<>>, <<>>, <<>>, 0))) }

\* one Repo, scored by one call after the other, the clock at 0
Init == InitWith(Heaps(1, WideInputs(0)), 0)

Spec == Init /\ [][Next]_vars

(***************************************************************************)
(* Two Repo values, scored by calls that may overlap.  The clock has one   *)
(* tick left, so that the calls read the same instant or instants a tick   *)
(* apart.                                                                  *)
(***************************************************************************)
LastTick == MaxTicks - 1

\* inputs that agree or differ in what the score must not depend on: the
\* earlier score and the title, beside the guidelines and the time of update
SameInputs(now) ==
    { WithGH(WithMetadata(WithMetadata(WithMetadata(Baseline(now), "Score", sc), "Title", ti),
                          "Guidelines", g), "UpdatedAt", u) :
        sc \in {0, 7}, ti \in {<<>>, Ascii(1)}, g \in {<<>>, Ascii(1)},
        u \in {Ptr(now), Ptr(now - Day)} }

InitSame == InitWith(Heaps(2, SameInputs(LastTick)), LastTick)

SpecSame == InitSame /\ [][Next]_vars

\* inputs that differ in forks, subscribers and stargazers, updated now, more
\* than a day ago, or far in the future
CountInputs(now) ==
    { Repo(Ptr(Repository(Ptr(f), Ptr(sub), Ptr(st), Ptr(0), Ptr(<<>>), u, Ptr(now - 1))),
           Ptr(InnerSourceMetadata(<<>>, <<>>, <<>>, 0))) :
        f \in {0, 1}, sub \in {0, 1}, st \in {StargazersDivisor - 1, StargazersDivisor},
        u \in {Ptr(now), Ptr(now - Day - 1), Ptr(now + UpdateWindowDays * Day)} }

InitCounts == InitWith(Heaps(2, CountInputs(LastTick)), LastTick)

SpecCounts == InitCounts /\ [][Next]_vars

\* inputs that differ in the description, the guidelines and the forks, with
\* the boost (created after every clock value) or without it (created before)
BonusInputs(now) ==
    { Repo(Ptr(Repository(Ptr(f), Ptr(0), Ptr(0), Ptr(0), Ptr(d), Ptr(now), c)),
           Ptr(InnerSourceMetadata(<<>>, <<>>, g, 0))) :
        f \in {0, ManyForks},
        d \in {<<>>, Ascii(MeaningfulLength + 1), Wide(MeaningfulLength \div 3 + 1)},
        g \in {<<>>, Ascii(1)}, c \in {Ptr(now + 1), Ptr(now - 1)} }

InitBonus == InitWith(Heaps(2, BonusInputs(LastTick)), LastTick)

SpecBonus == InitBonus /\ [][Next]_vars

\* complete inputs beside inputs that lack a field or the metadata
ConcurrentInputs(now) ==
    { Baseline(now),
      WithMetadata(WithGH(Baseline(now), "ForksCount", Ptr(1)), "Guidelines", Ascii(1)),
      WithGH(Baseline(now), "ForksCount", Nil),
      WithGH(Baseline(now), "Description", Nil),
      WithGH(Baseline(now), "UpdatedAt", Ptr(now - 1)),
      [Baseline(now) EXCEPT !.Metadata = Nil] }

InitConcurrent == InitWith(Heaps(2, ConcurrentInputs(0)), 0)

SpecConcurrent == InitConcurrent /\ [][Next]_vars

\* one Repo whose score reaches the log scale as InitialScore + subscribers:
\* updated now (multiplier 1), created a tick ago (no boost)
LogInputs(now) ==
    { WithGH(WithGH(Baseline(now), "SubscribersCount", Ptr(n)), "CreatedAt", Ptr(now - 1)) :
        n \in LogSubsFrom .. (LogSubsFrom + LogSubsSpan) }

InitLog == InitWith(Heaps(1, LogInputs(0)), 0)

SpecLog == InitLog /\ [][Next]_vars

\* one Repo not updated for more than a day, for a day, or updated now, with
\* few or many of each count, and texts of 31 bytes in 31 or in 11 characters
StaleInputs(now) ==
    { Repo(Ptr(Repository(c[1], c[2], c[3], c[4], Ptr(d), t[1], t[2])),
           Ptr(InnerSourceMetadata(<<>>, m, g, 0))) :
        c \in { <<Ptr(0), Ptr(0), Ptr(0), Ptr(0)>>, <<Ptr(1), Ptr(1), Ptr(4), Ptr(6)>>,
                <<Ptr(ManyForks), Ptr(0), Ptr(0), Ptr(0)>> },
        d \in { <<>>, Ascii(MeaningfulLength + 1), Wide(MeaningfulLength \div 3 + 1) },
        m \in { <<>>, Wide(MeaningfulLength \div 3 + 1) },
        g \in { <<>>, Ascii(1) },
        t \in { <<Ptr(now - Day - 1), Ptr(now - 1)>>, <<Ptr(now - Day), Ptr(now)>>,
                <<Nil, Nil>>, <<Ptr(now), Ptr(now)>> } }

InitStale == InitWith(Heaps(1, StaleInputs(0)), 0)

SpecStale == InitStale /\ [][Next]_vars

\* the lists of at most n entries drawn from S
ListsUpTo(S, n) == UNION { [1..k -> S] : k \in 0..n }

\* the Options the flags can set: a user or none, up to MaxEntries
\* organizations and topics, the visibility public or private
OptionCases ==
    { Options(u, orgs, topics, v) :
        u \in { <<>>, <<"u">> },
        orgs \in ListsUpTo({ <<"o">>, <<"p">> }, MaxEntries),
        topics \in ListsUpTo({ <<"s">>, <<"t">> }, MaxEntries),
        v \in { <<"p", "u", "b", "l", "i", "c">>, <<"p", "r", "i", "v", "a", "t", "e">> } }

\* any of these Options, and the baseline Repo to score
InitQuery == InitOf(OptionCases, Heaps(1, {Baseline(0)}), 0)

SpecQuery == InitQuery /\ [][Next]_vars

(***************************************************************************)
(* Properties of one call (specification Spec).                            *)
(***************************************************************************)
\* the calls that have begun
Active == { p \in Procs : pc[p] # "idle" }

\* the Repo a call was given, as it was when the call began
Entry(p) == Deref(frame[p].entry)

\* the required fields a Repo lacks
Absent(r) ==
    IF IsNil(r.GH) THEN { "forksCount", "subscribersCount", "stargazersCount",
                          "openIssuesCount", "description" }
    ELSE   (IF IsNil(Deref(r.GH).ForksCount) THEN {"forksCount"} ELSE {})
      \cup (IF IsNil(Deref(r.GH).SubscribersCount) THEN {"subscribersCount"} ELSE {})
      \cup (IF IsNil(Deref(r.GH).StargazersCount) THEN {"stargazersCount"} ELSE {})
      \cup (IF IsNil(Deref(r.GH).OpenIssuesCount) THEN {"openIssuesCount"} ELSE {})
      \cup (IF IsNil(Deref(r.GH).Description) THEN {"description"} ELSE {})

\* the call of p is the baseline scenario: nothing counted, no text, and
\* updatedAt = createdAt = the instant both time.Since calls read
BaselineScenario(p) ==
    /\ Absent(Entry(p)) = {}
    /\ ~IsNil(Entry(p).Metadata)
    /\ LET gh == Deref(Entry(p).GH)
           md == Deref(Entry(p).Metadata)
       IN  /\ gh.ForksCount = Ptr(0) /\ gh.SubscribersCount = Ptr(0)
           /\ gh.StargazersCount = Ptr(0) /\ gh.OpenIssuesCount = Ptr(0)
           /\ gh.Description = Ptr(<<>>)
           /\ md.Motivation = <<>> /\ md.Guidelines = <<>>
           /\ ~IsNil(gh.UpdatedAt)
           /\ gh.UpdatedAt = gh.CreatedAt
           /\ frame[p].nowAtUpdate = gh.UpdatedAt
           /\ frame[p].nowAtCreation = gh.UpdatedAt

\* C1: a call in the baseline scenario (all four counts 0, empty description,
\* motivation and guidelines, updatedAt = createdAt = now) has stored 1000
\* in metadata.score when it is about to return, and returns exactly 1000.
C1_Baseline ==
    \A p \in Procs :
        (pc[p] \in {"return", "done"} /\ BaselineScenario(p))
            => /\ pc[p] = "return"
                     => Deref(repos[frame[p].repo].Metadata).Score = 1000
               /\ pc[p] = "done" => frame[p].ret = Ptr(1000)

\* a baseline call has returned, over a score that was not 1000 before
C1_Witness ==
    \E p \in Procs :
        /\ pc[p] = "done" /\ BaselineScenario(p)
        /\ Deref(Entry(p).Metadata).Score # 1000

\* C2: a call on a snapshot that lacks forksCount, subscribersCount,
\* stargazersCount, openIssuesCount or description ends in a reported
\* MissingFieldError naming the field, never in an unrecoverable fault.
C2_MissingFieldReported ==
    \A p \in Active :
        Absent(Entry(p)) # {} => (pc[p] # "panicked" /\ ~crashed)

\* C3: when a call does not complete normally (a required field or the
\* metadata record is absent), metadata.score, like all of the Repo, is as it
\* was before the call, and no score has been returned.
C3_UnchangedOnFailure ==
    \A p \in Procs :
        pc[p] = "panicked"
            => /\ repos[frame[p].repo] = Entry(p)
               /\ IsNil(frame[p].ret)

\* a call has failed on the absent description, late, with a score under way
\* and an earlier score in the metadata
C3_Witness ==
    \E p \in Procs :
        /\ pc[p] = "panicked"
        /\ Absent(Entry(p)) = {"description"}
        /\ ~IsNil(Entry(p).Metadata)
        /\ Deref(Entry(p).Metadata).Score = 7
        /\ frame[p].score > InitialScore

\* r2 is r1 but for metadata.score
SameButScore(r1, r2) ==
    /\ r2.GH = r1.GH
    /\ IsNil(r2.Metadata) = IsNil(r1.Metadata)
    /\ ~IsNil(r1.Metadata)
          => [Deref(r2.Metadata) EXCEPT !.Score = 0] = [Deref(r1.Metadata) EXCEPT !.Score = 0]

\* C5: a call changes nothing but metadata.score of its own Repo, which it
\* writes in one step only (line 344), and a call that returns leaves there
\* the score it returns; the snapshot, the other metadata fields and
\* the options are as before.
C5_Frame ==
    [][ /\ opts' = opts
        /\ \A r \in DOMAIN repos :
              /\ SameButScore(repos[r], repos'[r])
              /\ repos'[r] # repos[r]
                    => \E p \in Procs : /\ frame[p].repo = r
                                        /\ pc[p] = "store" /\ pc'[p] = "return"
                                        /\ \A q \in Procs \ {p} : pc'[q] = pc[q]
        /\ \A p \in Procs :
              (pc[p] = "return" /\ pc'[p] = "done")
                  => /\ SameButScore(Deref(frame'[p].entry), repos'[frame'[p].repo])
                     /\ Ptr(Deref(repos'[frame'[p].repo].Metadata).Score) = frame'[p].ret
      ]_vars

\* a call has returned and left a new score beside a title, a motivation and
\* guidelines that are as before
C5_Witness ==
    \E p \in Procs :
        /\ pc[p] = "done"
        /\ Deref(Entry(p).Metadata).Title # <<>>
        /\ Deref(Entry(p).Metadata).Guidelines # <<>>
        /\ Deref(repos[frame[p].repo].Metadata).Score # Deref(Entry(p).Metadata).Score

SameNow(p, q) ==
    /\ ~IsNil(frame[p].nowAtCreation) /\ ~IsNil(frame[q].nowAtCreation)
    /\ frame[p].nowAtUpdate = frame[p].nowAtCreation
    /\ frame[q].nowAtUpdate = frame[q].nowAtCreation
    /\ frame[p].nowAtUpdate = frame[q].nowAtUpdate

\* the snapshot and the metadata p was given
Snapshot(p) == Deref(Entry(p).GH)

Metadata(p) == Deref(Entry(p).Metadata)

\* the score now in the metadata of the Repo p was given
StoredScore(p) == Deref(repos[frame[p].repo].Metadata).Score

\* C4: two calls that have returned, given the same snapshot, motivation and
\* guidelines and reading the same instant now, have returned the same score,
\* and that score is the one in the metadata of each; the earlier score, the
\* other metadata fields and an earlier call on the same Repo do not matter.
C4_Deterministic ==
    \A p, q \in Procs :
        ( /\ p # q /\ pc[p] = "done" /\ pc[q] = "done"
          /\ Snapshot(p) = Snapshot(q)
          /\ Metadata(p).Motivation = Metadata(q).Motivation
          /\ Metadata(p).Guidelines = Metadata(q).Guidelines
          /\ SameNow(p, q) )
            => /\ frame[p].ret = frame[q].ret
               /\ Ptr(StoredScore(p)) = frame[p].ret
               /\ Ptr(StoredScore(q)) = frame[q].ret

\* two calls on distinct Repo values with the same inputs, but another title
\* and another earlier score, have returned
C4_Witness ==
    \E p, q \in Procs :
        /\ p # q /\ pc[p] = "done" /\ pc[q] = "done"
        /\ frame[p].repo # frame[q].repo
        /\ Snapshot(p) = Snapshot(q)
        /\ Metadata(p).Motivation = Metadata(q).Motivation
        /\ Metadata(p).Guidelines = Metadata(q).Guidelines
        /\ SameNow(p, q)
        /\ Metadata(p).Score # Metadata(q).Score
        /\ Metadata(p).Title # Metadata(q).Title
        /\ frame[p].ret # Ptr(Metadata(p).Score)

\* the second call on one Repo, with the first call's score as the earlier
\* score, has returned at the same instant
C4_WitnessRepeated ==
    \E p, q \in Procs :
        /\ p # q /\ pc[p] = "done" /\ pc[q] = "done"
        /\ frame[p].repo = frame[q].repo
        /\ SameNow(p, q)
        /\ Metadata(p).Score # Metadata(q).Score

\* snapshot b is snapshot a but for one of the three counts, which is larger
LargerCount(a, b) ==
    \E f \in {"ForksCount", "SubscribersCount", "StargazersCount"} :
        /\ Deref(b[f]) > Deref(a[f])
        /\ [b EXCEPT ![f] = a[f]] = a

\* C6: of two calls at the log scale (before step 9) whose snapshots differ
\* only in one of forksCount, subscribersCount, stargazersCount, larger in
\* the second, with the same metadata and the same now, the second has a
\* score greater than or equal to the first's.
C6_Monotone ==
    \A p, q \in Procs :
        ( /\ pc[p] = "log" /\ pc[q] = "log"
          /\ LargerCount(Snapshot(p), Snapshot(q))
          /\ Entry(p).Metadata = Entry(q).Metadata
          /\ SameNow(p, q) )
            => frame[q].score >= frame[p].score

\* two such calls are at the log scale, the second with the greater score
C6_Witness ==
    \E p, q \in Procs :
        /\ pc[p] = "log" /\ pc[q] = "log"
        /\ LargerCount(Snapshot(p), Snapshot(q))
        /\ Entry(p).Metadata = Entry(q).Metadata
        /\ SameNow(p, q)
        /\ frame[q].score > frame[p].score

\* two calls that have returned, on the same counts and time stamps at the
\* same now, with the same metadata but for the guidelines and the earlier score
BonusPair(p, q) ==
    /\ pc[p] = "done" /\ pc[q] = "done"
    /\ [Snapshot(q) EXCEPT !.Description = Snapshot(p).Description] = Snapshot(p)
    /\ [Metadata(q) EXCEPT !.Guidelines = <<>>, !.Score = 0]
          = [Metadata(p) EXCEPT !.Guidelines = <<>>, !.Score = 0]
    /\ SameNow(p, q)

Returned(p) == Deref(frame[p].ret)

\* C7 as stated: with no guidelines, the input whose description has more
\* than 30 characters scores exactly 50 more than the one whose description
\* has at most 30 characters and whose motivation is empty; non-empty
\* guidelines raise the returned score by exactly 100.
C7_BonusExact ==
    \A p, q \in Procs :
        BonusPair(p, q)
            => /\ ( /\ Metadata(p).Guidelines = <<>> /\ Metadata(q).Guidelines = <<>>
                    /\ Len(Deref(Snapshot(q).Description)) > MeaningfulLength
                    /\ Len(Deref(Snapshot(p).Description)) <= MeaningfulLength
                    /\ Metadata(p).Motivation = <<>> )
                      => Returned(q) = Returned(p) + DescriptionBonus
               /\ ( /\ Snapshot(p) = Snapshot(q)
                    /\ Metadata(p).Guidelines = <<>> /\ Metadata(q).Guidelines # <<>> )
                      => Returned(q) = Returned(p) + GuidelinesBonus

\* C7, amended: the same with the length of the description counted in bytes
\* (Go's len), and for scores that are at most 3000 before step 9.
C7_Bonus ==
    \A p, q \in Procs :
        (BonusPair(p, q) /\ Deref(frame[q].preLog) <= LogThreshold)
            => /\ ( /\ Metadata(p).Guidelines = <<>> /\ Metadata(q).Guidelines = <<>>
                    /\ GoLen(Deref(Snapshot(q).Description)) > MeaningfulLength
                    /\ GoLen(Deref(Snapshot(p).Description)) <= MeaningfulLength
                    /\ Metadata(p).Motivation = <<>> )
                      => Returned(q) = Returned(p) + DescriptionBonus
               /\ ( /\ Snapshot(p) = Snapshot(q)
                    /\ Metadata(p).Guidelines = <<>> /\ Metadata(q).Guidelines # <<>> )
                      => Returned(q) = Returned(p) + GuidelinesBonus

\* two calls have returned scores 50 apart for the description alone, and
\* the lower one has engagement and boost in it
C7_Witness ==
    \E p, q \in Procs :
        /\ BonusPair(p, q) /\ Deref(frame[q].preLog) <= LogThreshold
        /\ Metadata(p).Guidelines = <<>> /\ Metadata(q).Guidelines = <<>>
        /\ GoLen(Deref(Snapshot(q).Description)) > MeaningfulLength
        /\ GoLen(Deref(Snapshot(p).Description)) <= MeaningfulLength
        /\ Returned(q) = Returned(p) + DescriptionBonus
        /\ Returned(p) > 0

\* two calls have returned scores 100 apart for the guidelines, both with
\* the description bonus
C7_WitnessGuidelines ==
    \E p, q \in Procs :
        /\ BonusPair(p, q) /\ Deref(frame[q].preLog) <= LogThreshold
        /\ Snapshot(p) = Snapshot(q)
        /\ GoLen(Deref(Snapshot(p).Description)) > MeaningfulLength
        /\ Metadata(p).Guidelines = <<>> /\ Metadata(q).Guidelines # <<>>
        /\ Returned(q) = Returned(p) + GuidelinesBonus

(***************************************************************************)
(* Calls that overlap (specification SpecConcurrent).                      *)
(***************************************************************************)
\* the score of a call that runs from its first statement to its return with
\* no other call in the program: lines 265-346 in sequence on the Repo r,
\* the two time.Since calls reading nowU and nowC
ScoreAlone(r, nowU, nowC) ==
    LET gh     == Deref(r.GH)
        md     == Deref(r.Metadata)
        counts == InitialScore + Deref(gh.ForksCount) * ForksWeight
                    + Deref(gh.SubscribersCount)
                    + TruncDiv(Deref(gh.StargazersCount), StargazersDivisor)
                    + TruncDiv(Deref(gh.OpenIssuesCount), OpenIssuesDivisor)
        tU     == Since(nowU, GetTimestamp(gh.UpdatedAt))
        tC     == Since(nowC, GetTimestamp(gh.CreatedAt))
        timed  == counts * UpdateMultiplier(tU) + Boost(tU) * CreationBoost(tC)
        bonus  == (IF Meaningful(Deref(gh.Description), md.Motivation)
                   THEN DescriptionBonus ELSE 0)
                  + (IF md.Guidelines # <<>> THEN GuidelinesBonus ELSE 0)
    IN  FinalScore(Compress(timed + bonus))

\* a call on r that runs alone returns: r lacks no field and has its metadata
CompletesAlone(r) == Absent(r) = {} /\ ~IsNil(r.Metadata)

\* every step of a call leaves the Repo values of the other calls as they are,
\* and a call that has returned has returned the score of its run alone
C8_Isolation ==
    [][ \A p \in Procs :
          /\ (pc'[p] # pc[p] /\ pc[p] # "idle")
                => \A r \in DOMAIN repos \ {frame[p].repo} : repos'[r] = repos[r]
          /\ (pc'[p] = "done" /\ pc[p] # "done")
                => /\ frame'[p].ret = Ptr(ScoreAlone(Deref(frame'[p].entry),
                                                     Deref(frame'[p].nowAtUpdate),
                                                     Deref(frame'[p].nowAtCreation)))
                   /\ Ptr(Deref(repos'[frame'[p].repo].Metadata).Score) = frame'[p].ret
      ]_vars

\* C8: under every interleaving of calls on pairwise distinct Repo values,
\* each call ends with the returned score of its run alone: a call whose run
\* alone returns is never cut short, and what it returns is that score.
C8_Uncoordinated ==
    \A p \in Active :
        CompletesAlone(Entry(p))
            => /\ crashed => pc[p] = "done"
               /\ pc[p] = "done"
                     => frame[p].ret = Ptr(ScoreAlone(Entry(p), Deref(frame[p].nowAtUpdate),
                                                      Deref(frame[p].nowAtCreation)))

(***************************************************************************)
(* The log scale (specification SpecLog).                                  *)
(***************************************************************************)
\* C10 as stated: a score s > 3000 leaves step 9 not greater than s, and
\* grows strictly less than s does (for 3000 < a < s the compressed values
\* differ by less than s - a); a score of at most 3000 is unchanged.
C10_Dampens ==
    \A p \in Procs :
        pc[p] = "final"
            => LET s == Deref(frame[p].preLog) IN
               IF s > LogThreshold
               THEN /\ frame[p].score <= s
                    /\ \A a \in (LogThreshold + 1) .. (s - 1) :
                          frame[p].score - Compress(a) < s - a
               ELSE frame[p].score = s

\* C10, amended: a score s > 3000 leaves step 9 greater than s when s < 3824
\* and not greater than s from 3824 on; for 3000 < a < s the compressed
\* values differ by at most s - a, and by less when s - a >= 2; a score of at
\* most 3000 is unchanged.
C10_Compression ==
    \A p \in Procs :
        pc[p] = "final"
            => LET s == Deref(frame[p].preLog) IN
               IF s > LogThreshold
               THEN /\ s >= 3824 <=> frame[p].score <= s
                    /\ \A a \in (LogThreshold + 1) .. (s - 1) :
                          /\ frame[p].score - Compress(a) <= s - a
                          /\ frame[p].score >= Compress(a)
                          /\ s - a >= 2 => frame[p].score - Compress(a) < s - a
               ELSE frame[p].score = s

\* a score above 3824 has been compressed to less than it was
C10_Witness ==
    \E p \in Procs :
        /\ pc[p] = "final"
        /\ Deref(frame[p].preLog) > 3824
        /\ frame[p].score < Deref(frame[p].preLog)

\* a score just above the threshold has been raised by the log scale
C10_WitnessRaised ==
    \E p \in Procs :
        /\ pc[p] = "final"
        /\ Deref(frame[p].preLog) = LogThreshold + 1
        /\ frame[p].score = 3800

(***************************************************************************)
(* The range of the score and of its factors (specification Spec).         *)
(***************************************************************************)
\* the four counts of the snapshot p was given are there and not negative
CountsNonNegative(p) ==
    /\ Absent(Entry(p)) = {}
    /\ \A f \in {"ForksCount", "SubscribersCount", "StargazersCount", "OpenIssuesCount"} :
          Deref(Snapshot(p)[f]) >= 0

\* C11: a call that has returned, given counts that are not negative and
\* updatedAt, createdAt not later than the instants now it read, has returned
\* a score greater than or equal to 0, and has stored a score greater than or
\* equal to 0 when it is about to return.
C11_NonNegative ==
    \A p \in Procs :
        ( /\ pc[p] \in {"return", "done"}
          /\ CountsNonNegative(p)
          /\ frame[p].daysSinceLastUpdate >= 0
          /\ frame[p].daysSinceCreation >= 0 )
            => /\ pc[p] = "return" => StoredScore(p) >= 0
               /\ pc[p] = "done" => Returned(p) >= 0

\* C12: whatever updatedAt and createdAt are, a call on a Repo that lacks
\* nothing does not fail, its update multiplier and its creation factor are
\* each 0 or 1, and its boost, before and after the creation factor, is at
\* most 1000.
C12_Clamped ==
    \A p \in Active :
        /\ (CompletesAlone(Entry(p)) /\ ~crashed) => pc[p] # "panicked"
        /\ ~IsNil(frame[p].nowAtUpdate)
              => /\ frame[p].updateMultiplier \in 0..1
                 /\ frame[p].boost <= MaxBoost
        /\ ~IsNil(frame[p].nowAtCreation) => frame[p].creationBoost \in 0..1

(***************************************************************************)
(* Repositories not updated within the last day (specification SpecStale).  *)
(***************************************************************************)
\* the call of p read more than a day since the update and some time since
\* the creation
Stale(p) ==
    /\ frame[p].daysSinceLastUpdate > Day
    /\ frame[p].daysSinceCreation > 0

\* the score of bonuses alone, the description bonus given or not
BonusesAlone(p, meaningful) ==
    (IF meaningful THEN DescriptionBonus ELSE 0)
      + (IF Metadata(p).Guidelines # <<>> THEN GuidelinesBonus ELSE 0)
      - InitialScore

Contains(q, w) ==
    \E i \in 0 .. (Len(q) - Len(w)) : SubSeq(q, i + 1, i + Len(w)) = w

\* the qualifier name:value as it stands in an escaped query
Qualifier(name, value) == QueryEscape(name \o <<":">> \o value)

\* GetRepos has built the query, and no repository is scored yet (the query
\* is as it is from then on)
QueryBuilt == ~IsNil(query) /\ \A p \in Procs : pc[p] = "idle"

\* C14: the query GetRepos has built contains a qualifier for the configured
\* user, for each entry of Organizations, for each entry of Topics and for
\* the visibility, and no configuration that differs in one of these four
\* fields yields the same query.
C14_WholeConfiguration ==
    QueryBuilt
        => LET q == Deref(query) IN
           /\ opts.User # <<>> => Contains(q, Qualifier(<<"u", "s", "e", "r">>, opts.User))
           /\ \A i \in DOMAIN opts.Organizations :
                 Contains(q, Qualifier(<<"o", "r", "g">>, opts.Organizations[i]))
           /\ \A i \in DOMAIN opts.Topics :
                 Contains(q, Qualifier(<<"t", "o", "p", "i", "c">>, opts.Topics[i]))
           /\ Contains(q, Qualifier(<<"i", "s">>, opts.Visibility))
           /\ \A o \in OptionCases : o # opts => getSearchQuery(o) # q

\* what a configuration's query is built from: the first organization, the
\* first topic (none when the list is empty) and the visibility
FirstEntries(o) ==
    << IF o.Organizations = <<>> THEN <<>> ELSE <<o.Organizations[1]>>,
       IF o.Topics = <<>> THEN <<>> ELSE <<o.Topics[1]>>,
       o.Visibility >>

\* the query contains the qualifiers of the first organization, of the first
\* topic and of the visibility, and it is the query of exactly the
\* configurations with these three
C14_FirstEntriesOnly ==
    QueryBuilt
        => LET q == Deref(query) IN
           /\ opts.Organizations # <<>>
                 => Contains(q, Qualifier(<<"o", "r", "g">>, opts.Organizations[1]))
           /\ opts.Topics # <<>>
                 => Contains(q, Qualifier(<<"t", "o", "p", "i", "c">>, opts.Topics[1]))
           /\ Contains(q, Qualifier(<<"i", "s">>, opts.Visibility))
           /\ \A o \in OptionCases :
                 getSearchQuery(o) = q <=> FirstEntries(o) = FirstEntries(opts)

====
